---- MODULE Spec2Model ----
(***************************************************************************)
(* generate-srt (src/main.py): extract a video's audio with ffmpeg,        *)
(* transcribe it with whisper, render the segments as SRT text.            *)
(*                                                                         *)
(* Text is a sequence of one-character strings.  A time in seconds is an   *)
(* integer number of ticks, TicksPerMs ticks to the millisecond, so that   *)
(* round(seconds * 1000) has something to round.                           *)
(***************************************************************************)
EXTENDS Integers, Sequences, FiniteSets, TLC

VARIABLES
    pc,            \* position of main(): see the actions
    input_exists,  \* os.path.exists(input_path)
    ffmpeg_status, \* how the media tool ended: "not_run" | "zero" | "nonzero" | "not_found"
    tmpdir,        \* "none" | "present" | "removed": the TemporaryDirectory
    pending,       \* how the with-block is being left: "none" | "return3" | "raise"
    result,        \* the raw value m.transcribe() returned
    segments,      \* what transcribe_audio_whisper returned
    srt_text,      \* what segments_to_srt returned
    output_file,   \* the text written to output_srt, or NoFile
    exit_code,     \* main's return value, or NoExit
    calls,         \* the external calls made so far, in order
    ts_pc,         \* format_timestamp driver: "call" | "ret"
    ts_in,         \* its argument, in ticks
    ts_out         \* its result

vars == <<pc, input_exists, ffmpeg_status, tmpdir, pending, result, segments, srt_text,
          output_file, exit_code, calls, ts_pc, ts_in, ts_out>>

mainVars == <<pc, input_exists, ffmpeg_status, tmpdir, pending, result, segments, srt_text,
              output_file, exit_code, calls>>

tsVars == <<ts_pc, ts_in, ts_out>>

----------------------------------------------------------------------------
(* Bounds of the model *)

\* largest hours value of a format_timestamp argument
MaxHours == 25
\* longest "segments" list a raw result carries
MaxSegs == 2

\* ticks per millisecond: the model's resolution below 1 ms
TicksPerMs == 10

(* Program constants *)

MsPerSecond == 1000
MsPerMinute == 60 * 1000
MsPerHour == 3600 * 1000
\* float(int) raises OverflowError beyond the double range (about 1.8e308)
DblMax10Exp == 308

TicksPerSecond == TicksPerMs * MsPerSecond

----------------------------------------------------------------------------
(* Text *)

Digits == <<"0", "1", "2", "3", "4", "5", "6", "7", "8", "9">>

DigitChar(d) == Digits[d + 1]

IsDigit(c) == \E d \in 0..9 : Digits[d + 1] = c

DigitVal(c) == CHOOSE d \in 0..9 : Digits[d + 1] = c

\* str(n) for n >= 0
RECURSIVE NatToStr(_)
NatToStr(n) == IF n < 10 THEN <<DigitChar(n)>>
               ELSE NatToStr(n \div 10) \o <<DigitChar(n % 10)>>

RECURSIVE ZeroPad(_, _)
ZeroPad(s, width) == IF Len(s) >= width THEN s ELSE ZeroPad(<<"0">> \o s, width)

\* f"{n:0<width>d}": sign-aware zero padding, never truncating
FormatZeroPadded(n, width) ==
    IF n < 0 THEN <<"-">> \o ZeroPad(NatToStr(-n), width - 1)
    ELSE ZeroPad(NatToStr(n), width)

\* str.strip() with no argument removes whitespace at both ends
Whitespace == {" ", "\n", "\t"}

RECURSIVE LStrip(_)
LStrip(s) == IF s # <<>> /\ Head(s) \in Whitespace THEN LStrip(Tail(s)) ELSE s

RECURSIVE RStrip(_)
RStrip(s) == IF s # <<>> /\ s[Len(s)] \in Whitespace
             THEN RStrip(SubSeq(s, 1, Len(s) - 1)) ELSE s

Strip(s) == RStrip(LStrip(s))

\* sep.join(items)
RECURSIVE Join(_, _)
Join(items, sep) ==
    IF items = <<>> THEN <<>>
    ELSE IF Len(items) = 1 THEN items[1]
    ELSE items[1] \o sep \o Join(Tail(items), sep)

----------------------------------------------------------------------------
(* format_timestamp *)

\* round(x) of Python 3: to nearest, ties to even; x = ticks / TicksPerMs
RoundHalfEven(ticks) ==
    LET q == ticks \div TicksPerMs
        r == ticks % TicksPerMs
    IN IF 2 * r < TicksPerMs THEN q
       ELSE IF 2 * r > TicksPerMs THEN q + 1
       ELSE IF q % 2 = 0 THEN q ELSE q + 1

\* int(round(seconds * 1000))
ToMillis(ticks) == RoundHalfEven(ticks)

\* the code wrapping hours at a day
format_timestamp_wrapping(ticks) ==
    LET millis0 == ToMillis(ticks)
        hours == (millis0 \div MsPerHour) % 24
        millis1 == millis0 % MsPerHour
        minutes == millis1 \div MsPerMinute
        millis2 == millis1 - minutes * MsPerMinute
        secs == millis2 \div MsPerSecond
        millis3 == millis2 - secs * MsPerSecond
    IN FormatZeroPadded(hours, 2) \o <<":">> \o FormatZeroPadded(minutes, 2)
       \o <<":">> \o FormatZeroPadded(secs, 2) \o <<",">>
       \o FormatZeroPadded(millis3, 3)

format_timestamp(ticks) ==
    LET millis0 == ToMillis(ticks)
        hours == millis0 \div MsPerHour
        millis1 == millis0 - hours * MsPerHour
        minutes == millis1 \div MsPerMinute
        millis2 == millis1 - minutes * MsPerMinute
        secs == millis2 \div MsPerSecond
        millis3 == millis2 - secs * MsPerSecond
    IN FormatZeroPadded(hours, 2) \o <<":">> \o FormatZeroPadded(minutes, 2)
       \o <<":">> \o FormatZeroPadded(secs, 2) \o <<",">>
       \o FormatZeroPadded(millis3, 3)

\* ticks of h hours, m minutes, s seconds, ms milliseconds and f ticks
TicksOf(h, m, s, ms, f) ==
    (((h * 60 + m) * 60 + s) * MsPerSecond + ms) * TicksPerMs + f

\* the arguments format_timestamp is applied to
SecondsInputs ==
    { TicksOf(h, m, s, ms, f) :
        h \in 0..MaxHours, m \in {0, 1, 59}, s \in {0, 1, 59},
        ms \in {0, 500, 999}, f \in {0, 4, 5, 6} }

----------------------------------------------------------------------------
(* Python values, as far as the code tells them apart *)

Missing == [t |-> "missing"]                 \* key absent from a dict
None == [t |-> "None"]
Float(ticks) == [t |-> "float", k |-> "fin", v |-> ticks]
NaN == [t |-> "float", k |-> "nan", v |-> 0]
Inf == [t |-> "float", k |-> "inf", v |-> 0]
PyInt(d, e) == [t |-> "int", d |-> d, e |-> e]  \* the int d * 10^e
Str(s) == [t |-> "str", s |-> s]
List(items) == [t |-> "list", items |-> items]
SegDict(start, end, text) == [t |-> "dict", start |-> start, end |-> end, text |-> text]
ResultDict(segs, duration, text) ==
    [t |-> "dict", segments |-> segs, duration |-> duration, text |-> text]

\* the outcome of a call: a value, or the exception it raised
Returned(v) == [exc |-> "none", val |-> v]
Raised(e) == [exc |-> e, val |-> <<>>]

RECURSIVE Pow10(_)
Pow10(e) == IF e = 0 THEN 1 ELSE 10 * Pow10(e - 1)

\* float(x) for an int x: OverflowError beyond the double range
IntOverflowsFloat(x) ==
    \/ x.e > DblMax10Exp
    \/ x.e = DblMax10Exp /\ x.d >= 2
    \/ x.e = DblMax10Exp - 1 /\ x.d >= 18

IntToFloat(x) ==
    IF IntOverflowsFloat(x) THEN Raised("OverflowError")
    ELSE Returned(Float(x.d * Pow10(x.e) * TicksPerSecond))

RECURSIVE StrToNat(_)
StrToNat(s) == IF s = <<>> THEN 0
               ELSE 10 * StrToNat(SubSeq(s, 1, Len(s) - 1)) + DigitVal(s[Len(s)])

AllDigits(s) == \A i \in 1..Len(s) : IsDigit(s[i])

IndexOf(s, c) == IF \E i \in 1..Len(s) : s[i] = c
                 THEN CHOOSE i \in 1..Len(s) : s[i] = c /\ \A j \in 1..(i - 1) : s[j] # c
                 ELSE 0

\* float(s) for a str s without exponent or underscore: surrounding
\* whitespace and a sign are accepted, "nan" and "inf" are numbers,
\* anything else raises ValueError
ParseFloat(s) ==
    LET body == Strip(s)
        signed == body # <<>> /\ Head(body) \in {"+", "-"}
        sign == IF signed /\ Head(body) = "-" THEN -1 ELSE 1
        mag == IF signed THEN Tail(body) ELSE body
        dot == IndexOf(mag, ".")
        whole == IF dot = 0 THEN mag ELSE SubSeq(mag, 1, dot - 1)
        frac == IF dot = 0 THEN <<>> ELSE SubSeq(mag, dot + 1, Len(mag))
    IN IF mag = <<"n", "a", "n">> THEN Returned(NaN)
       ELSE IF mag \in {<<"i", "n", "f">>, <<"i", "n", "f", "i", "n", "i", "t", "y">>}
            THEN Returned(Inf)
       ELSE IF AllDigits(whole) /\ AllDigits(frac) /\ Len(whole) + Len(frac) > 0
            THEN Returned(Float(sign * (StrToNat(whole) * TicksPerSecond
                     + (StrToNat(frac) * TicksPerSecond) \div Pow10(Len(frac)))))
       ELSE Raised("ValueError")

----------------------------------------------------------------------------
(* transcribe_audio_whisper: the normalization of the raw result *)

IsDict(x) == x.t = "dict"
IsList(x) == x.t = "list"

\* result.get(key, default)
DictGet(v, default) == IF v = Missing THEN default ELSE v

\* lines 78-82
SegmentsCandidate(res) ==
    IF IsDict(res) /\ IsList(res.segments) THEN res.segments.items ELSE <<>>

\* lines 95-102
SafeDuration(duration) ==
    IF duration.t = "int" THEN IntToFloat(duration)
    ELSE IF duration.t = "float" THEN Returned(duration)
    ELSE IF duration.t = "str"
         THEN LET p == ParseFloat(duration.s)
              IN IF p.exc = "ValueError" THEN Returned(Float(0)) ELSE p
    ELSE Returned(Float(0))

\* lines 84-104
FallbackSegments(res) ==
    LET duration == IF IsDict(res) THEN DictGet(res.duration, Float(0)) ELSE Float(0)
        text == IF IsDict(res) THEN DictGet(res.text, Str(<<>>)) ELSE Str(<<>>)
        safe == SafeDuration(duration)
    IN IF safe.exc # "none" THEN Raised(safe.exc)
       ELSE Returned(<<SegDict(Float(0), safe.val, text)>>)

\* lines 78-106 keeping only the entries that are dicts
NormalizeValidating(res) ==
    LET segments_candidate == SelectSeq(SegmentsCandidate(res), IsDict)
    IN IF segments_candidate = <<>> THEN FallbackSegments(res)
       ELSE Returned(segments_candidate)

\* lines 78-106
Normalize(res) ==
    LET segments_candidate == SegmentsCandidate(res)
    IN IF segments_candidate = <<>> THEN FallbackSegments(res)
       ELSE Returned(segments_candidate)

----------------------------------------------------------------------------
(* segments_to_srt *)

Arrow == <<" ", "-", "-", ">", " ">>
NL == <<"\n">>

\* format_timestamp(x) for any value x
FormatValue(x) ==
    IF x.t = "float"
    THEN IF x.k = "nan" THEN Raised("ValueError")
         ELSE IF x.k = "inf" THEN Raised("OverflowError")
         ELSE Returned(format_timestamp(x.v))
    ELSE IF x.t = "int" THEN Returned(format_timestamp(x.d * Pow10(x.e) * TicksPerSecond))
    ELSE Raised("TypeError")

\* lines 49-55 leaving the text as it came
BlockLinesUnstripped(idx, seg) ==
    IF ~IsDict(seg) THEN Raised("TypeError")
    ELSE IF seg.start = Missing THEN Raised("KeyError")
    ELSE LET start == FormatValue(seg.start)
         IN IF start.exc # "none" THEN start
    ELSE IF seg.end = Missing THEN Raised("KeyError")
    ELSE LET end == FormatValue(seg.end)
             text == DictGet(seg.text, Str(<<>>))
         IN IF end.exc # "none" THEN end
            ELSE IF text.t # "str" THEN Raised("AttributeError")
            ELSE Returned(<<NatToStr(idx), start.val \o Arrow \o end.val,
                            text.s, <<>>>>)

\* lines 49-55: the four lines of one segment
BlockLines(idx, seg) ==
    IF ~IsDict(seg) THEN Raised("TypeError")
    ELSE IF seg.start = Missing THEN Raised("KeyError")
    ELSE LET start == FormatValue(seg.start)
         IN IF start.exc # "none" THEN start
    ELSE IF seg.end = Missing THEN Raised("KeyError")
    ELSE LET end == FormatValue(seg.end)
             text == DictGet(seg.text, Str(<<>>))
         IN IF end.exc # "none" THEN end
            ELSE IF text.t # "str" THEN Raised("AttributeError")
            ELSE Returned(<<NatToStr(idx), start.val \o Arrow \o end.val,
                            Strip(text.s), <<>>>>)

\* lines 47-55: the loop, from the idx-th segment on
RECURSIVE SrtLines(_, _)
SrtLines(segs, idx) ==
    IF idx > Len(segs) THEN Returned(<<>>)
    ELSE LET b == BlockLines(idx, segs[idx])
         IN IF b.exc # "none" THEN b
            ELSE LET rest == SrtLines(segs, idx + 1)
                 IN IF rest.exc # "none" THEN rest
                    ELSE Returned(b.val \o rest.val)

\* line 56
JoinLines(linesOut) == Join(linesOut, NL)

segments_to_srt(segs) ==
    LET linesOut == SrtLines(segs, 1)
    IN IF linesOut.exc # "none" THEN linesOut
       ELSE Returned(JoinLines(linesOut.val))

----------------------------------------------------------------------------
(* The raw results the recognition model may return *)

Sec(s) == s * TicksPerSecond
Ms(ms) == ms * TicksPerMs

TextHello == <<" ", "h", "e", "l", "l", "o", " ">>
TextHi == <<"h", "i">>

\* segments as section 3 of the design describes them
WellFormedEntries ==
    { SegDict(Float(0), Float(Sec(5)), Str(TextHello)),
      SegDict(Float(Sec(5)), Float(Sec(61) + Ms(500)), Str(<<"\t", "a", "\n", "b", "\n">>)),
      SegDict(Float(Sec(7)), Float(Sec(7)), Str(<<" ", " ">>)),
      SegDict(Float(Sec(3661) + Ms(999)), Float(Sec(90000)), Missing) }

\* entries a model result may carry all the same
MalformedEntries ==
    { SegDict(Float(Sec(5)), Float(Sec(1)), Str(<<"x">>)),
      SegDict(Float(0 - Ms(500)), Float(Sec(1)), Str(<<"y">>)),
      SegDict(Float(0), Float(Sec(1)), None),
      PyInt(7, 0) }

Entries == WellFormedEntries \cup MalformedEntries

ListsOf(S, n) == UNION { [1..k -> S] : k \in 0..n }

SegmentsValues ==
    {Missing, None, Str(<<"x">>)} \cup { List(l) : l \in ListsOf(Entries, MaxSegs) }

DurationValues ==
    { Missing, None, PyInt(12, 0), PyInt(1, 400),
      Float(Sec(12) + Ms(300)), Float(0 - Sec(1)), NaN,
      Str(<<"1", "2", ".", "3">>), Str(<<"a", "b", "c">>) }

TextValues == { Missing, None, Str(TextHi), Str(TextHello) }

RawResults ==
    {None, Str(TextHi)}
    \cup { ResultDict(s, d, x) : s \in SegmentsValues, d \in DurationValues, x \in TextValues }

----------------------------------------------------------------------------
(* main *)

Unset == [t |-> "unset"]
NoFile == <<"<no file>">>

ExitOk == 0
ExitUncaught == 1
ExitNotFound == 2
ExitFfmpegFailed == 3

Init ==
    /\ pc = "check_input"
    /\ input_exists \in BOOLEAN
    /\ ffmpeg_status = "not_run"
    /\ tmpdir = "none"
    /\ pending = "none"
    /\ result = Unset
    /\ segments = <<>>
    /\ srt_text = <<>>
    /\ output_file = NoFile
    /\ exit_code = <<>>
    /\ calls = <<>>
    /\ ts_pc = "idle"
    /\ ts_in = 0
    /\ ts_out = <<>>

\* lines 126-131 without the early return
CheckInputNoReturn ==
    /\ pc = "check_input"
    /\ pc' = "enter_tmpdir"
    /\ UNCHANGED <<input_exists, ffmpeg_status, tmpdir, pending, result, segments, srt_text,
                   output_file, exit_code, calls, tsVars>>

\* lines 126-131
CheckInput ==
    /\ pc = "check_input"
    /\ IF input_exists
       THEN pc' = "enter_tmpdir" /\ UNCHANGED exit_code
       ELSE pc' = "done" /\ exit_code' = <<ExitNotFound>>
    /\ UNCHANGED <<input_exists, ffmpeg_status, tmpdir, pending, result, segments, srt_text,
                   output_file, calls, tsVars>>

\* lines 133-134: entering the with-block creates the directory
EnterTmpdir ==
    /\ pc = "enter_tmpdir"
    /\ tmpdir' = "present"
    /\ calls' = Append(calls, "mkdtemp")
    /\ pc' = "ffmpeg"
    /\ UNCHANGED <<input_exists, ffmpeg_status, pending, result, segments, srt_text,
                   output_file, exit_code, tsVars>>

\* lines 135-141 taking a failed extraction for a success
RunFfmpegUnchecked ==
    /\ pc = "ffmpeg"
    /\ calls' = Append(calls, "ffmpeg")
    /\ \/ pc' = "import" /\ pending' = "none" /\ ffmpeg_status' = "zero"
       \/ pc' = "import" /\ pending' = "none" /\ ffmpeg_status' = "nonzero"
       \/ pc' = "exit_tmpdir" /\ pending' = "raise" /\ ffmpeg_status' = "not_found"
    /\ UNCHANGED <<input_exists, tmpdir, result, segments, srt_text,
                   output_file, exit_code, tsVars>>

\* lines 135-141 and 10-30: check_call returns, raises CalledProcessError
\* (caught: return 3) or FileNotFoundError (re-raised, not caught by main)
RunFfmpeg ==
    /\ pc = "ffmpeg"
    /\ calls' = Append(calls, "ffmpeg")
    /\ \/ pc' = "import" /\ pending' = "none" /\ ffmpeg_status' = "zero"
       \/ pc' = "exit_tmpdir" /\ pending' = "return3" /\ ffmpeg_status' = "nonzero"
       \/ pc' = "exit_tmpdir" /\ pending' = "raise" /\ ffmpeg_status' = "not_found"
    /\ UNCHANGED <<input_exists, tmpdir, result, segments, srt_text,
                   output_file, exit_code, tsVars>>

\* lines 60-64
ImportWhisper ==
    /\ pc = "import"
    /\ calls' = Append(calls, "import")
    /\ \/ pc' = "load" /\ pending' = "none"
       \/ pc' = "exit_tmpdir" /\ pending' = "raise"
    /\ UNCHANGED <<input_exists, ffmpeg_status, tmpdir, result, segments, srt_text,
                   output_file, exit_code, tsVars>>

\* lines 66-67
LoadModel ==
    /\ pc = "load"
    /\ calls' = Append(calls, "load_model")
    /\ \/ pc' = "transcribe" /\ pending' = "none"
       \/ pc' = "exit_tmpdir" /\ pending' = "raise"
    /\ UNCHANGED <<input_exists, ffmpeg_status, tmpdir, result, segments, srt_text,
                   output_file, exit_code, tsVars>>

\* lines 72-73
Transcribe ==
    /\ pc = "transcribe"
    /\ calls' = Append(calls, "transcribe")
    /\ \/ \E r \in RawResults :
            result' = r /\ pc' = "normalize" /\ pending' = "none"
       \/ pc' = "exit_tmpdir" /\ pending' = "raise" /\ UNCHANGED result
    /\ UNCHANGED <<input_exists, ffmpeg_status, tmpdir, segments, srt_text,
                   output_file, exit_code, tsVars>>

\* lines 75-106, and line 143 binding the value returned
NormalizeResult ==
    /\ pc = "normalize"
    /\ LET n == Normalize(result)
       IN IF n.exc = "none"
          THEN segments' = n.val /\ pending' = "none"
          ELSE pending' = "raise" /\ UNCHANGED segments
    /\ pc' = "exit_tmpdir"
    /\ UNCHANGED <<input_exists, ffmpeg_status, tmpdir, result, srt_text,
                   output_file, exit_code, calls, tsVars>>

\* leaving the with-block without removing the directory
ExitTmpdirLeaking ==
    /\ pc = "exit_tmpdir"
    /\ IF pending = "none" THEN pc' = "format" /\ UNCHANGED exit_code
       ELSE IF pending = "return3"
            THEN pc' = "done" /\ exit_code' = <<ExitFfmpegFailed>>
            ELSE pc' = "crashed" /\ exit_code' = <<ExitUncaught>>
    /\ tmpdir' = IF pending = "none" THEN "removed" ELSE tmpdir
    /\ calls' = IF pending = "none" THEN Append(calls, "rmtree") ELSE calls
    /\ UNCHANGED <<input_exists, ffmpeg_status, pending, result, segments, srt_text,
                   output_file, tsVars>>

\* line 133: TemporaryDirectory.__exit__ removes the directory however the
\* block is left, then the return or the exception goes on
ExitTmpdir ==
    /\ pc = "exit_tmpdir"
    /\ tmpdir' = "removed"
    /\ calls' = Append(calls, "rmtree")
    /\ IF pending = "none" THEN pc' = "format" /\ UNCHANGED exit_code
       ELSE IF pending = "return3"
            THEN pc' = "done" /\ exit_code' = <<ExitFfmpegFailed>>
            ELSE pc' = "crashed" /\ exit_code' = <<ExitUncaught>>
    /\ UNCHANGED <<input_exists, ffmpeg_status, pending, result, segments, srt_text,
                   output_file, tsVars>>

\* line 145
FormatSrt ==
    /\ pc = "format"
    /\ LET s == segments_to_srt(segments)
       IN IF s.exc = "none"
          THEN srt_text' = s.val /\ pc' = "write" /\ UNCHANGED exit_code
          ELSE pc' = "crashed" /\ exit_code' = <<ExitUncaught>> /\ UNCHANGED srt_text
    /\ UNCHANGED <<input_exists, ffmpeg_status, tmpdir, pending, result, segments,
                   output_file, calls, tsVars>>

\* lines 147-148
WriteOutput ==
    /\ pc = "write"
    /\ output_file' = srt_text
    /\ calls' = Append(calls, "write")
    /\ pc' = "return"
    /\ UNCHANGED <<input_exists, ffmpeg_status, tmpdir, pending, result, segments, srt_text,
                   exit_code, tsVars>>

\* lines 150-151
ReturnOk ==
    /\ pc = "return"
    /\ exit_code' = <<ExitOk>>
    /\ pc' = "done"
    /\ UNCHANGED <<input_exists, ffmpeg_status, tmpdir, pending, result, segments, srt_text,
                   output_file, calls, tsVars>>

Next ==
    \/ CheckInput
    \/ EnterTmpdir
    \/ RunFfmpeg
    \/ ImportWhisper
    \/ LoadModel
    \/ Transcribe
    \/ NormalizeResult
    \/ ExitTmpdir
    \/ FormatSrt
    \/ WriteOutput
    \/ ReturnOk

Spec == Init /\ [][Next]_vars

----------------------------------------------------------------------------
(* format_timestamp on its own *)

InitTs ==
    /\ ts_pc = "call"
    /\ ts_in \in SecondsInputs
    /\ ts_out = <<>>
    /\ pc = "idle"
    /\ input_exists = FALSE
    /\ ffmpeg_status = "not_run"
    /\ tmpdir = "none"
    /\ pending = "none"
    /\ result = Unset
    /\ segments = <<>>
    /\ srt_text = <<>>
    /\ output_file = NoFile
    /\ exit_code = <<>>
    /\ calls = <<>>

FormatTs ==
    /\ ts_pc = "call"
    /\ ts_out' = format_timestamp(ts_in)
    /\ ts_pc' = "ret"
    /\ UNCHANGED <<ts_in, mainVars>>

NextTs == FormatTs

SpecTs == InitTs /\ [][NextTs]_vars


----------------------------------------------------------------------------
(* Properties of format_timestamp *)

\* the number a run of digits stands for, and the fields of HH:MM:SS,mmm
\* read back from the text: everything before the last ten characters is
\* the hours
TsHoursLen(s) == Len(s) - 10

TsWellFormed(s) ==
    LET n == TsHoursLen(s)
    IN /\ n >= 2
       /\ AllDigits(SubSeq(s, 1, n))
       /\ s[n + 1] = ":" /\ AllDigits(SubSeq(s, n + 2, n + 3))
       /\ s[n + 4] = ":" /\ AllDigits(SubSeq(s, n + 5, n + 6))
       /\ s[n + 7] = "," /\ AllDigits(SubSeq(s, n + 8, n + 10))

TsHours(s) == StrToNat(SubSeq(s, 1, TsHoursLen(s)))
TsMinutes(s) == StrToNat(SubSeq(s, TsHoursLen(s) + 2, TsHoursLen(s) + 3))
TsSeconds(s) == StrToNat(SubSeq(s, TsHoursLen(s) + 5, TsHoursLen(s) + 6))
TsMillis(s) == StrToNat(SubSeq(s, TsHoursLen(s) + 8, TsHoursLen(s) + 10))

\* C1: for every non-negative seconds value the text returned is
\* HH:MM:SS,mmm whose fields are hours = T div 3,600,000, minutes =
\* (T mod 3,600,000) div 60,000, seconds = (T mod 60,000) div 1,000 and
\* milliseconds = T mod 1,000 of T = round(seconds * 1000); minutes and
\* seconds stay within 0..59, milliseconds within 0..999, the fields add up
\* to T, and hours are not wrapped at 24: 90000 s is 25:00:00,000, 0 s is
\* 00:00:00,000 and 61.5 s is 00:01:01,500.
C1_TimestampFields ==
    ts_pc = "ret" =>
        LET T == RoundHalfEven(ts_in)
        IN /\ TsWellFormed(ts_out)
           /\ TsHours(ts_out) = T \div MsPerHour
           /\ TsMinutes(ts_out) = (T % MsPerHour) \div MsPerMinute
           /\ TsSeconds(ts_out) = (T % MsPerMinute) \div MsPerSecond
           /\ TsMillis(ts_out) = T % MsPerSecond
           /\ TsMinutes(ts_out) \in 0..59
           /\ TsSeconds(ts_out) \in 0..59
           /\ TsMillis(ts_out) \in 0..999
           /\ TsHours(ts_out) * MsPerHour + TsMinutes(ts_out) * MsPerMinute
                + TsSeconds(ts_out) * MsPerSecond + TsMillis(ts_out) = T
           /\ ts_in = Sec(90000) => ts_out = <<"2", "5", ":", "0", "0", ":", "0", "0", ",", "0", "0", "0">>
           /\ ts_in = 0 => ts_out = <<"0", "0", ":", "0", "0", ":", "0", "0", ",", "0", "0", "0">>
           /\ ts_in = Sec(61) + Ms(500) => ts_out = <<"0", "0", ":", "0", "1", ":", "0", "1", ",", "5", "0", "0">>

\* a value just below 25 hours whose rounding carries through every field
C1_Witness ==
    /\ ts_pc = "ret"
    /\ ts_in = TicksOf(24, 59, 59, 999, 6)
    /\ ts_out = <<"2", "5", ":", "0", "0", ":", "0", "0", ",", "0", "0", "0">>

----------------------------------------------------------------------------
(* Properties of segments_to_srt *)

\* main got past line 145 with a text to write
Formatted == pc \in {"write", "return"} \/ (pc = "done" /\ exit_code = <<ExitOk>>)

\* segments_to_srt raised
FormatRaised == pc = "crashed" /\ pending = "none"

IsFinite(x) == x.t = "float" /\ x.k = "fin"

\* a segment with numeric start <= end and a text, if any, that is a string
OrderedSegment(seg) ==
    /\ IsDict(seg)
    /\ IsFinite(seg.start) /\ IsFinite(seg.end)
    /\ seg.start.v <= seg.end.v
    /\ seg.text = Missing \/ seg.text.t = "str"

SegmentText(seg) == IF seg.text = Missing THEN <<>> ELSE seg.text.s

\* one block: index line, time-range line, text line
RenderedBlock(k, seg) ==
    NatToStr(k) \o NL
    \o format_timestamp(seg.start.v) \o Arrow \o format_timestamp(seg.end.v) \o NL
    \o Strip(SegmentText(seg)) \o NL

\* C2: for any list of N segments with start <= end the text rendered is
\* exactly N blocks, in the order of the segments and numbered 1..N, the
\* k-th block carrying the k-th segment's formatted start and end and its
\* text trimmed of surrounding whitespace; a blank line separates blocks.
C2_BlocksInOrder ==
    (\A i \in 1..Len(segments) : OrderedSegment(segments[i])) =>
        /\ ~FormatRaised
        /\ Formatted =>
             srt_text = Join([k \in 1..Len(segments) |-> RenderedBlock(k, segments[k])], NL)

C2_Witness ==
    /\ pc = "done" /\ exit_code = <<ExitOk>>
    /\ Len(segments) = MaxSegs
    /\ \A i \in 1..Len(segments) : OrderedSegment(segments[i])
    /\ segments[1] # segments[2]
    /\ segments[2].text = Str(TextHello)
    /\ output_file = srt_text

\* C3: every block, the last one included, is an index line, a time-range
\* line, a text line and a blank line, each ended by a newline: for the
\* single segment {0.0, 5.0, " hello "} the file written is
\* "1\n00:00:00,000 --> 00:00:05,000\nhello\n\n".
C3_EveryBlockEndsWithBlankLine ==
    /\ (pc = "done" /\ exit_code = <<ExitOk>>
        /\ \A i \in 1..Len(segments) : OrderedSegment(segments[i])) =>
           output_file =
             Join([k \in 1..Len(segments) |-> RenderedBlock(k, segments[k]) \o NL], <<>>)
    /\ (pc = "done" /\ exit_code = <<ExitOk>>
        /\ segments = <<SegDict(Float(0), Float(Sec(5)), Str(TextHello))>>) =>
           output_file = 
             <<"1", "\n", "0", "0", ":", "0", "0", ":", "0", "0", ",", "0", "0", "0", " ", "-", "-", ">", " ", "0", "0", ":", "0", "0", ":", "0", "5", ",", "0", "0", "0", "\n", "h", "e", "l", "l", "o", "\n", "\n">>

----------------------------------------------------------------------------
(* Properties of the normalization in transcribe_audio_whisper *)

\* lines 75-106 have run on the value m.transcribe() returned
Normalized == result # Unset /\ pc # "normalize"

\* the raw result is a dict whose "segments" is a non-empty list
HasSegmentList(res) ==
    IsDict(res) /\ IsList(res.segments) /\ res.segments.items # <<>>

\* C4: the normalization is total: whatever the raw result is (not a dict;
\* "segments" missing, empty or not a list; a duration absent, a number of
\* any magnitude, a numeric or other string, any other type; any text) it
\* does not raise and returns a non-empty list.
C4_NormalizationTotal ==
    Normalized => pending = "none" /\ Len(segments) >= 1

\* the end the fallback segment is to carry for a reported duration
ReportedEnd(duration) ==
    IF duration.t = "float" THEN duration
    ELSE IF duration.t = "int" THEN Float(duration.d * Pow10(duration.e) * TicksPerSecond)
    ELSE IF duration.t = "str" /\ ParseFloat(duration.s).exc = "none"
         THEN ParseFloat(duration.s).val
    ELSE Float(0)

\* C5: without a usable "segments" list (the result is not a dict, or the
\* field is missing, empty or not a list) exactly one segment is returned,
\* with start 0.0, end the reported duration when that is a number or a
\* numeric string ("12.3" gives 12.3, rendered 00:00:12,300) and 0.0
\* otherwise, and text the result's text, or "" when absent.
C5_FallbackSegment ==
    (Normalized /\ ~HasSegmentList(result)) =>
        /\ pending = "none"
        /\ Len(segments) = 1
        /\ segments[1].start = Float(0)
        /\ segments[1].end =
             ReportedEnd(IF IsDict(result) /\ result.duration # Missing
                         THEN result.duration ELSE Float(0))
        /\ segments[1].text =
             (IF IsDict(result) /\ result.text # Missing THEN result.text ELSE Str(<<>>))
        /\ (IsDict(result) /\ result.duration = Str(<<"1", "2", ".", "3">>)) =>
             /\ segments[1].end = Float(Sec(12) + Ms(300))
             /\ format_timestamp(segments[1].end.v) = <<"0", "0", ":", "0", "0", ":", "1", "2", ",", "3", "0", "0">>

WellFormedSegment(seg) ==
    /\ IsDict(seg)
    /\ IsFinite(seg.start) /\ IsFinite(seg.end)
    /\ 0 <= seg.start.v /\ seg.start.v <= seg.end.v
    /\ seg.text.t = "str"

\* C10: every segment handed to the formatter is well formed (start a
\* non-negative number, end a number >= start, text a string), on the
\* pass-through path and on the fallback path alike, so that formatting
\* the transcriber's output never fails.
C10_SegmentsWellFormed ==
    /\ (Normalized /\ pending = "none") =>
          \A i \in 1..Len(segments) : WellFormedSegment(segments[i])
    /\ ~FormatRaised

----------------------------------------------------------------------------
(* Properties of main *)

Ended == pc \in {"done", "crashed"}

\* C7: when the input path does not exist main returns 2 and has done
\* nothing else: no temporary directory, no call of the media tool or of
\* the recognition model, no output file.
C7_MissingInput ==
    ~input_exists =>
        /\ pc \in {"check_input", "done"}
        /\ pc = "done" => exit_code = <<ExitNotFound>>
        /\ tmpdir = "none"
        /\ calls = <<>>
        /\ ffmpeg_status = "not_run"
        /\ result = Unset
        /\ output_file = NoFile

C7_Witness ==
    ~input_exists /\ pc = "done" /\ exit_code = <<ExitNotFound>> /\ calls = <<>>

\* C8: when the media tool ends with a non-zero status main returns 3, the
\* model is neither loaded nor run and no file is written; and main returns
\* 0 only after extraction, transcription and the write have each happened
\* once, in that order.
C8_ExitCodes ==
    /\ ffmpeg_status = "nonzero" =>
          /\ pc \in {"exit_tmpdir", "done"}
          /\ pc = "done" => exit_code = <<ExitFfmpegFailed>>
          /\ calls \in {<<"mkdtemp", "ffmpeg">>, <<"mkdtemp", "ffmpeg", "rmtree">>}
          /\ result = Unset
          /\ output_file = NoFile
    /\ exit_code = <<ExitFfmpegFailed>> => ffmpeg_status = "nonzero"
    /\ exit_code = <<ExitOk>> =>
          /\ calls = <<"mkdtemp", "ffmpeg", "import", "load_model", "transcribe",
                       "rmtree", "write">>
          /\ ffmpeg_status = "zero"
          /\ output_file = srt_text

C8_Witness ==
    /\ ffmpeg_status = "nonzero"
    /\ pc = "done"
    /\ exit_code = <<ExitFfmpegFailed>>
    /\ output_file = NoFile

\* C9: once created, the temporary directory is removed however the run
\* goes on: after a transcription that succeeded, before the text is
\* formatted and written; when extraction fails with code 3; when the media
\* tool is missing; when import, load or inference raises.  No run ends
\* with the directory there.
C9_TmpdirRemoved ==
    /\ Ended => tmpdir # "present"
    /\ pc \in {"format", "write", "return"} => tmpdir = "removed"
    /\ (srt_text # <<>> \/ output_file # NoFile) => tmpdir = "removed"
    /\ (Ended /\ ffmpeg_status # "not_run") => tmpdir = "removed"

\* the model raised during inference and the directory is gone
C9_Witness ==
    /\ pc = "crashed"
    /\ calls = <<"mkdtemp", "ffmpeg", "import", "load_model", "transcribe", "rmtree">>
    /\ result = Unset
    /\ tmpdir = "removed"

====
